---- MODULE Spec2Model ----
(***************************************************************************)
(* Model of test-serial.py: an echo client and an echo server exchanging   *)
(* LF-terminated lines over a serial (or RS485) port.                      *)
(*                                                                         *)
(* Bytes are integers 0..255, byte strings and texts are sequences of      *)
(* integers (texts hold Unicode code points).  A process is identified by  *)
(* the mode it was started in ("client" or "server").                      *)
(***************************************************************************)
EXTENDS Integers, Sequences, FiniteSets, TLC

\* ------------------------------------------------------------------ bounds
\* largest num_runs handed to echo_client (its default is 10)
MaxRuns == 10
\* most lines the server's history records
MaxLines == 2
\* most bytes that may sit in a port's input buffer without a line feed
\* before the peer stops sending further chunks
MaxPending == 2

Role == {"client", "server"}

Peer(p) == IF p = "client" THEN "server" ELSE "client"

\* ------------------------------------------------------- string literals
LF == <<10>>

TX == <<84, 88>>

RX == <<82, 88>>

\* "TX_run_"
TX_run_ == <<84, 88, 95, 114, 117, 110, 95>>

\* "RX_run_"
RX_run_ == <<82, 88, 95, 114, 117, 110, 95>>

\* "TEST OK"
TEST_OK == <<84, 69, 83, 84, 32, 79, 75>>

\* "ERROR: "
ERROR_ == <<69, 82, 82, 79, 82, 58, 32>>

\* "Reponse does not match expected reponse: "
Reponse_does_not_match == <<82, 101, 112, 111, 110, 115, 101, 32, 100, 111,
    101, 115, 32, 110, 111, 116, 32, 109, 97, 116, 99, 104, 32, 101, 120,
    112, 101, 99, 116, 101, 100, 32, 114, 101, 112, 111, 110, 115, 101, 58,
    32>>

\* " != "
NotEqualSign == <<32, 33, 61, 32>>

\* "0123456789abcdef"
HexDigits == <<48, 49, 50, 51, 52, 53, 54, 55, 56, 57, 97, 98, 99, 100, 101, 102>>

\* ------------------------------------------------------ sequence helpers
Last(s) == s[Len(s)]

HasLF(b) == \E i \in 1..Len(b) : b[i] = 10

\* index of the first line feed of b (b holds one)
FirstLF(b) == CHOOSE i \in 1..Len(b) : b[i] = 10 /\ \A j \in 1..(i - 1) : b[j] # 10

Contains(s, t) ==
    \E i \in 0..(Len(s) - Len(t)) : SubSeq(s, i + 1, i + Len(t)) = t

Concatenated[ss \in Seq(Seq(Int))] ==
    IF ss = <<>> THEN <<>> ELSE Head(ss) \o Concatenated[Tail(ss)]

Concat(ss) == Concatenated[ss]

\* --------------------------------------------------- str(int): f"{run}"
RECURSIVE FormatInt(_)
FormatInt(n) ==
    IF n < 10 THEN <<48 + n>>
    ELSE FormatInt(n \div 10) \o <<48 + (n % 10)>>

\* ------------------------------------------------ bytes.decode() (UTF-8)
IsCont(b) == b >= 128 /\ b <= 191

\* number of bytes of the well-formed UTF-8 sequence that starts b, 0 if none
SeqLen(b) ==
    IF b = <<>> THEN 0
    ELSE LET b1 == b[1] IN
         IF b1 < 128 THEN 1
         ELSE IF b1 >= 194 /\ b1 <= 223
              THEN IF Len(b) >= 2 /\ IsCont(b[2]) THEN 2 ELSE 0
         ELSE IF b1 >= 224 /\ b1 <= 239
              THEN IF /\ Len(b) >= 3
                      /\ IsCont(b[2])
                      /\ IsCont(b[3])
                      /\ (b1 = 224 => b[2] >= 160)
                      /\ (b1 = 237 => b[2] <= 159)
                   THEN 3 ELSE 0
         ELSE IF b1 >= 240 /\ b1 <= 244
              THEN IF /\ Len(b) >= 4
                      /\ IsCont(b[2])
                      /\ IsCont(b[3])
                      /\ IsCont(b[4])
                      /\ (b1 = 240 => b[2] >= 144)
                      /\ (b1 = 244 => b[2] <= 143)
                   THEN 4 ELSE 0
         ELSE 0

\* the code point the first n bytes of b encode
CodePoint(b, n) ==
    IF n = 1 THEN b[1]
    ELSE IF n = 2 THEN (b[1] - 192) * 64 + (b[2] - 128)
    ELSE IF n = 3 THEN (b[1] - 224) * 4096 + (b[2] - 128) * 64 + (b[3] - 128)
    ELSE (b[1] - 240) * 262144 + (b[2] - 128) * 4096 + (b[3] - 128) * 64 + (b[4] - 128)

\* the decoder's scan, sequence by sequence: is there an ill-formed one
Malformed[b \in Seq(Int)] ==
    IF b = <<>> THEN FALSE
    ELSE LET n == SeqLen(b) IN
         IF n = 0 THEN TRUE ELSE Malformed[SubSeq(b, n + 1, Len(b))]

\* does bytes.decode() raise UnicodeDecodeError
UnicodeDecodeError(b) == Malformed[b]

\* the decoder's scan, sequence by sequence: the code points
CodePoints[b \in Seq(Int)] ==
    IF b = <<>> THEN <<>>
    ELSE LET n == SeqLen(b) IN
         <<CodePoint(b, n)>> \o CodePoints[SubSeq(b, n + 1, Len(b))]

\* bytes.decode() of a byte string that decodes
decode(b) == CodePoints[b]

\* ------------------------------------------------- str.encode() (UTF-8)
EncodeChar(c) ==
    IF c < 128 THEN <<c>>
    ELSE IF c < 2048 THEN <<192 + (c \div 64), 128 + (c % 64)>>
    ELSE IF c < 65536
         THEN <<224 + (c \div 4096), 128 + ((c \div 64) % 64), 128 + (c % 64)>>
    ELSE <<240 + (c \div 262144), 128 + ((c \div 4096) % 64),
           128 + ((c \div 64) % 64), 128 + (c % 64)>>

Encoded[s \in Seq(Int)] ==
    IF s = <<>> THEN <<>> ELSE EncodeChar(Head(s)) \o Encoded[Tail(s)]

encode(s) == Encoded[s]

\* ------------------------------------------- str.replace("TX", "RX")
\* the scan of str.replace from the left, an occurrence at a time
Replaced[s \in Seq(Int)] ==
    IF Len(s) < 2 THEN s
    ELSE IF SubSeq(s, 1, 2) = TX THEN RX \o Replaced[SubSeq(s, 3, Len(s))]
    ELSE <<Head(s)>> \o Replaced[Tail(s)]

ReplacedOnce[s \in Seq(Int)] ==
    IF Len(s) < 2 THEN s
    ELSE IF SubSeq(s, 1, 2) = TX THEN RX \o SubSeq(s, 3, Len(s))
    ELSE <<Head(s)>> \o ReplacedOnce[Tail(s)]

replace_first(s) == ReplacedOnce[s]

no_replace(s) == s

replace(s) == Replaced[s]

\* ------------------------------------------------------- repr(bytes)
\* one byte as repr() shows it inside quotes of character q
ReprByte(c, q) ==
    IF c = 92 THEN <<92, 92>>
    ELSE IF c = 9 THEN <<92, 116>>
    ELSE IF c = 10 THEN <<92, 110>>
    ELSE IF c = 13 THEN <<92, 114>>
    ELSE IF c = q THEN <<92, q>>
    ELSE IF c < 32 \/ c >= 127
         THEN <<92, 120, HexDigits[(c \div 16) + 1], HexDigits[(c % 16) + 1]>>
    ELSE <<c>>

\* repr() of a byte string: b'...' unless it holds ' and no "
Repr(b) ==
    LET q == IF (\E i \in 1..Len(b) : b[i] = 39) /\ ~(\E i \in 1..Len(b) : b[i] = 34)
             THEN 34 ELSE 39
    IN  <<98, q>> \o Concat([i \in 1..Len(b) |-> ReprByte(b[i], q)]) \o <<q>>

\* ------------------------------------------------------- the exception
NoException == [message |-> <<>>, response |-> <<>>, expected_response |-> <<>>]

InvalidSerial5Reponse(response, expected_response) ==
    [message |-> Reponse_does_not_match \o Repr(response) \o NotEqualSign
                    \o Repr(expected_response),
     response |-> response,
     expected_response |-> expected_response]

\* ------------------------------------------------- echo_client's strings
range_short(n) == 0..(n - 1)

\* range(num_runs + 1)
range(n) == 0..n

\* f"TX_run_{run}\n"
payload(run) == TX_run_ \o FormatInt(run) \o LF

\* f"RX_run_{run}\n".encode()
expected_response(run) == encode(RX_run_ \o FormatInt(run) \o LF)

mismatch_never(response, expected) == FALSE

mismatch_prefix(response, expected) ==
    ~(Len(response) <= Len(expected) /\ response = SubSeq(expected, 1, Len(response)))

\* response != expected_response
mismatch(response, expected) == response # expected

\* ================================================================ state
VARIABLES
    pc,          \* [Role -> where the process started in that mode stands]
    rs485,       \* [Role -> was --rs485 given (RS485Interface) or not]
    rx,          \* [Role -> bytes waiting in the port's input buffer]
    stale,       \* [Role -> how many bytes at the head of rx were buffered before open]
    stale_read,  \* [Role -> has a readline returned bytes buffered before open]
    reads,       \* [Role -> the byte strings readline returned, in order]
    written,     \* [Role -> the byte strings handed to port.write, in order]
    num_runs,    \* echo_client's parameter
    run,         \* echo_client's loop variable
    exc,         \* the InvalidSerial5Reponse echo_client raised, or NoException
    text,        \* echo_server's decoded payload that awaits its response
    stdout,      \* [Role -> lines printed to standard output]
    stderr,      \* [Role -> lines printed to standard error]
    exit_code,   \* [Role -> exit status, -1 while the process runs]
    interrupted  \* [Role -> has signal_handler run]

vars == <<pc, rs485, rx, stale, stale_read, reads, written, num_runs, run, exc,
          text, stdout, stderr, exit_code, interrupted>>

ClientLoop == {"client_write", "client_read"}

ServerLoop == {"server_read", "server_write"}

Running == {"construct", "client_write", "client_read", "main_ok", "main_except",
            "server_read", "server_write"}

\* "NameError: name 'ser' is not defined"
NameError == <<78, 97, 109, 101, 69, 114, 114, 111, 114, 58, 32, 110, 97, 109,
    101, 32, 39, 115, 101, 114, 39, 32, 105, 115, 32, 110, 111, 116, 32, 100,
    101, 102, 105, 110, 101, 100>>

\* "Failed to decode payload: "
Failed_to_decode == <<70, 97, 105, 108, 101, 100, 32, 116, 111, 32, 100, 101,
    99, 111, 100, 101, 32, 112, 97, 121, 108, 111, 97, 100, 58, 32>>

\* bytes a port may hold when it is opened
StaleInputs == {<<>>, <<111, 108, 100>>, <<111, 108, 100, 10>>}

\* where main goes once the interface is constructed (lines 132-136), and
\* where the for loop of echo_client goes for index r
loop_entry(mode, r, n) ==
    IF mode = "server" THEN "server_read"
    ELSE IF r \in range(n) THEN "client_write" ELSE "main_ok"

\* ------------------------------------------------------------ port.write
\* the bytes reach the peer's input buffer when a peer process is there
port_write(p, data) ==
    /\ written' = [written EXCEPT ![p] = Append(@, data)]
    /\ IF pc[Peer(p)] = "absent"
       THEN rx' = rx
       ELSE rx' = [rx EXCEPT ![Peer(p)] = @ \o data]

\* --------------------------------------------------------- port.readline
\* the port's state after a readline that returned the first k buffered bytes
port_read(p, k) ==
    /\ rx' = [rx EXCEPT ![p] = SubSeq(@, k + 1, Len(@))]
    /\ stale' = [stale EXCEPT ![p] = IF @ > k THEN @ - k ELSE 0]
    /\ stale_read' = [stale_read EXCEPT ![p] = @ \/ (stale[p] > 0 /\ k > 0)]
    /\ reads' = [reads EXCEPT ![p] = Append(@, SubSeq(rx[p], 1, k))]

\* --------------------------------------------------- interface constructors
\* SerialInterface.__init__: opens the port and drains the RX buffer
SerialInterface_init(p) ==
    /\ pc[p] = "construct"
    /\ ~rs485[p]
    /\ IF Len(rx[p]) > 0
       THEN \* self.port.read(ser.in_waiting): the name ser is not defined
            /\ pc' = [pc EXCEPT ![p] = "exited"]
            /\ stderr' = [stderr EXCEPT ![p] = Append(@, NameError)]
            /\ exit_code' = [exit_code EXCEPT ![p] = 1]
       ELSE /\ pc' = [pc EXCEPT ![p] = loop_entry(p, 0, num_runs)]
            /\ UNCHANGED <<stderr, exit_code>>
    /\ UNCHANGED <<rs485, rx, stale, stale_read, reads, written, num_runs, run,
                   exc, text, stdout, interrupted>>

\* RS485Interface.__init__: opens the port, sets rs485_mode, drains nothing
RS485Interface_init(p) ==
    /\ pc[p] = "construct"
    /\ rs485[p]
    /\ pc' = [pc EXCEPT ![p] = loop_entry(p, 0, num_runs)]
    /\ UNCHANGED <<rs485, rx, stale, stale_read, reads, written, num_runs, run,
                   exc, text, stdout, stderr, exit_code, interrupted>>

\* ------------------------------------------------------------ echo_client
\* lines 66-69: build payload and expected response, write the payload
echo_client_write ==
    /\ pc["client"] = "client_write"
    /\ port_write("client", encode(payload(run)))
    /\ pc' = [pc EXCEPT !["client"] = "client_read"]
    /\ UNCHANGED <<rs485, stale, stale_read, reads, num_runs, run, exc, text,
                   stdout, stderr, exit_code, interrupted>>

\* lines 70-73 and the loop's step, for a readline that returned k bytes
echo_client_response(k) ==
    LET response == SubSeq(rx["client"], 1, k) IN
    /\ port_read("client", k)
    /\ IF mismatch(response, expected_response(run))
       THEN /\ exc' = InvalidSerial5Reponse(response, expected_response(run))
            /\ pc' = [pc EXCEPT !["client"] = "main_except"]
            /\ run' = run
       ELSE /\ exc' = exc
            /\ pc' = [pc EXCEPT !["client"] = loop_entry("client", run + 1, num_runs)]
            /\ run' = IF run + 1 \in range(num_runs) THEN run + 1 ELSE run
    /\ UNCHANGED <<rs485, written, num_runs, text, stdout, stderr, exit_code,
                   interrupted>>

\* readline returns a full line
echo_client_readline ==
    /\ pc["client"] = "client_read"
    /\ HasLF(rx["client"])
    /\ echo_client_response(FirstLF(rx["client"]))

\* readline runs into the timeout: it returns what arrived, possibly nothing
echo_client_timeout ==
    /\ pc["client"] = "client_read"
    /\ ~HasLF(rx["client"])
    /\ echo_client_response(Len(rx["client"]))

\* ------------------------------------------------------------ echo_server
\* how many lines the server's history holds: MaxLines against an arbitrary
\* peer, and as many as a client sends when the peer is the echo client
ServerHistory == IF pc["client"] = "absent" THEN MaxLines ELSE MaxRuns + 2

on_decode_error_exit == "exited"

\* the except clause of echo_server: print and go on with the loop
on_decode_error == "server_read"

\* lines 82-83 and 87-90, for a readline that returned k bytes
echo_server_payload(k) ==
    LET line == SubSeq(rx["server"], 1, k) IN
    /\ Len(reads["server"]) < ServerHistory
    /\ port_read("server", k)
    /\ IF UnicodeDecodeError(line)
       THEN /\ stderr' = [stderr EXCEPT !["server"] =
                              Append(@, Failed_to_decode \o Repr(line))]
            /\ pc' = [pc EXCEPT !["server"] = on_decode_error]
            /\ exit_code' = [exit_code EXCEPT !["server"] =
                                 IF on_decode_error = "exited" THEN 1 ELSE @]
            /\ text' = text
       ELSE /\ text' = decode(line)
            /\ pc' = [pc EXCEPT !["server"] = "server_write"]
            /\ UNCHANGED <<stderr, exit_code>>
    /\ UNCHANGED <<rs485, written, num_runs, run, exc, stdout, interrupted>>

echo_server_readline ==
    /\ pc["server"] = "server_read"
    /\ HasLF(rx["server"])
    /\ echo_server_payload(FirstLF(rx["server"]))

echo_server_timeout ==
    /\ pc["server"] = "server_read"
    /\ ~HasLF(rx["server"])
    /\ echo_server_payload(Len(rx["server"]))

\* lines 85-86: replace and write back
echo_server_write ==
    /\ pc["server"] = "server_write"
    /\ port_write("server", encode(replace(text)))
    /\ pc' = [pc EXCEPT !["server"] = "server_read"]
    /\ text' = <<>>
    /\ UNCHANGED <<rs485, stale, stale_read, reads, num_runs, run, exc, stdout,
                   stderr, exit_code, interrupted>>

\* ------------------------------------------------------------------- main
main_report_status_0(e) == [line |-> ERROR_ \o e.message, status |-> 0]

\* print(f"ERROR: {e}"); sys.exit(1)
main_report(e) == [line |-> ERROR_ \o e.message, status |-> 1]

\* lines 137-139: print the error and exit
main_except ==
    /\ pc["client"] = "main_except"
    /\ stdout' = [stdout EXCEPT !["client"] = Append(@, main_report(exc).line)]
    /\ exit_code' = [exit_code EXCEPT !["client"] = main_report(exc).status]
    /\ pc' = [pc EXCEPT !["client"] = "exited"]
    /\ UNCHANGED <<rs485, rx, stale, stale_read, reads, written, num_runs, run,
                   exc, text, stderr, interrupted>>

\* line 141: print "TEST OK"; main returns
main_ok ==
    /\ pc["client"] = "main_ok"
    /\ stdout' = [stdout EXCEPT !["client"] = Append(@, TEST_OK)]
    /\ exit_code' = [exit_code EXCEPT !["client"] = 0]
    /\ pc' = [pc EXCEPT !["client"] = "exited"]
    /\ UNCHANGED <<rs485, rx, stale, stale_read, reads, written, num_runs, run,
                   exc, text, stderr, interrupted>>

\* SIGINT arrives: sys.exit() raises SystemExit, which no except clause of
\* the program catches (main catches Exception, echo_server UnicodeDecodeError)
signal_handler(p) ==
    /\ pc[p] \in Running
    /\ pc' = [pc EXCEPT ![p] = "exited"]
    /\ exit_code' = [exit_code EXCEPT ![p] = 0]
    /\ interrupted' = [interrupted EXCEPT ![p] = TRUE]
    /\ UNCHANGED <<rs485, rx, stale, stale_read, reads, written, num_runs, run,
                   exc, text, stdout, stderr>>

\* ------------------------------------------------------------ environment
\* what the device at the other end of the line may send next
Chunks(p) ==
    IF p = "client"
    THEN {expected_response(run), expected_response(run + 1),
          encode(payload(run)), RX_run_, <<255, 10>>}
    ELSE {<<104, 101, 108, 108, 111, 95, 84, 88, 95, 84, 88, 10>>,
          <<84, 88, 84, 88>>, <<116, 120, 10>>,
          <<255, 10>>, <<195>>, <<169, 10>>}

\* the other end of the line sends bytes (no process of this program there)
peer_sends(p) ==
    /\ pc[Peer(p)] = "absent"
    /\ pc[p] \in ClientLoop \cup ServerLoop
    /\ ~HasLF(rx[p])
    /\ Len(rx[p]) < MaxPending
    /\ \E chunk \in Chunks(p) : rx' = [rx EXCEPT ![p] = @ \o chunk]
    /\ UNCHANGED <<pc, rs485, stale, stale_read, reads, written, num_runs, run,
                   exc, text, stdout, stderr, exit_code, interrupted>>

\* ---------------------------------------------------------- specifications
Fresh(p) ==
    /\ reads = [q \in Role |-> <<>>]
    /\ written = [q \in Role |-> <<>>]
    /\ run = 0
    /\ exc = NoException
    /\ text = <<>>
    /\ stdout = [q \in Role |-> <<>>]
    /\ stderr = [q \in Role |-> <<>>]
    /\ exit_code = [q \in Role |-> -1]
    /\ interrupted = [q \in Role |-> FALSE]
    /\ stale_read = [q \in Role |-> FALSE]

\* one process of the program, started in either mode, on a line whose other
\* end may send anything
Init ==
    /\ \E p \in Role : pc = [q \in Role |-> IF q = p THEN "construct" ELSE "absent"]
    /\ num_runs \in IF pc["client"] = "absent" THEN {MaxRuns} ELSE 0..MaxRuns
    /\ \E b \in BOOLEAN : rs485 = [q \in Role |-> b]
    /\ \E s \in StaleInputs :
          rx = [q \in Role |-> IF pc[q] = "absent" THEN <<>> ELSE s]
    /\ stale = [q \in Role |-> Len(rx[q])]
    /\ Fresh("client")

Next ==
    \/ \E p \in Role : SerialInterface_init(p)
    \/ \E p \in Role : RS485Interface_init(p)
    \/ echo_client_write
    \/ echo_client_readline
    \/ echo_client_timeout
    \/ echo_server_readline
    \/ echo_server_timeout
    \/ echo_server_write
    \/ main_except
    \/ main_ok
    \/ \E p \in Role : signal_handler(p)
    \/ \E p \in Role : peer_sends(p)

Spec == Init /\ [][Next]_vars

\* an echo client and an echo server of this program at the two ends of a
\* lossless, in-order line, both past construction with nothing buffered, and
\* no read running into its timeout
InitPair ==
    /\ num_runs \in 0..MaxRuns
    /\ pc = [q \in Role |-> loop_entry(q, 0, num_runs)]
    /\ rs485 \in [Role -> BOOLEAN]
    /\ rx = [q \in Role |-> <<>>]
    /\ stale = [q \in Role |-> 0]
    /\ Fresh("client")

NextPair ==
    \/ echo_client_write
    \/ echo_client_readline
    \/ echo_server_readline
    \/ echo_server_write
    \/ main_ok

SpecPair == InitPair /\ [][NextPair]_vars

\* both processes keep running: a step that can be taken is taken
FairSpecPair == SpecPair /\ WF_vars(NextPair)

\* ================================================================ claims
\* the decimal numeral of n < 100
Numeral(n) == IF n < 10 THEN <<48 + n>> ELSE <<48 + (n \div 10), 48 + (n % 10)>>

\* the bytes of 'TX_run_N\n' and of 'RX_run_N\n'
TXLine(n) == <<84, 88, 95, 114, 117, 110, 95>> \o Numeral(n) \o <<10>>

RXLine(n) == <<82, 88, 95, 114, 117, 110, 95>> \o Numeral(n) \o <<10>>

\* what the client wrote and read so far
CW == written["client"]

CR == reads["client"]

\* every one of the num_runs + 1 exchanges was made and matched
AllMatched ==
    /\ Len(CR) = num_runs + 1
    /\ \A i \in 1..Len(CR) : CR[i] = RXLine(i - 1)

Mismatches == {i \in 1..Len(CR) : CR[i] # RXLine(i - 1)}

\* C2: once a read line differs from 'RX_run_N\n' it is the last line the
\* client reads and its payload the last one written, and the client has
\* failed with an error that carries the line read and the line expected;
\* without such a line there is no error.
C2_MismatchStops ==
    /\ Mismatches # {} =>
          /\ Mismatches = {Len(CR)}
          /\ Len(CW) = Len(CR)
          /\ exc.response = CR[Len(CR)]
          /\ exc.expected_response = RXLine(Len(CR) - 1)
          /\ exc.response # exc.expected_response
          /\ pc["client"] \in {"main_except", "exited"}
    /\ Mismatches = {} => exc = NoException

C2_Witness ==
    /\ num_runs = MaxRuns
    /\ pc["client"] = "exited"
    /\ Len(CR) = 2
    /\ CR[2] = <<>>
    /\ exc.response = <<>>
    /\ exc.expected_response = RXLine(1)

\* what the server wrote and read so far, and the read lines that decode
SW == written["server"]

SR == reads["server"]

IsText(b) == ~UnicodeDecodeError(b)

SD == SelectSeq(SR, IsText)

\* b with every occurrence of the bytes 'TX' turned into 'RX'
Substituted(b) ==
    [i \in 1..Len(b) |->
        IF b[i] = 84 /\ i < Len(b) /\ b[i + 1] = 88 THEN 82 ELSE b[i]]

\* C3: the j-th write of the server is the j-th decodable line it read with
\* every occurrence of 'TX' replaced by 'RX': a line without 'TX' comes back
\* unchanged, 'TXTX' as 'RXRX', 'hello_TX_TX\n' as 'hello_RX_RX\n'.
C3_Transform ==
    /\ Len(SW) <= Len(SD)
    /\ \A j \in 1..Len(SW) :
          /\ SW[j] = Substituted(SD[j])
          /\ ~Contains(SD[j], <<84, 88>>) => SW[j] = SD[j]
          /\ SD[j] = <<84, 88, 84, 88>> => SW[j] = <<82, 88, 82, 88>>
          /\ SD[j] = <<104, 101, 108, 108, 111, 95, 84, 88, 95, 84, 88, 10>>
                => SW[j] = <<104, 101, 108, 108, 111, 95, 82, 88, 95, 82, 88, 10>>

C3_Witness ==
    /\ Len(SW) = 2
    /\ SR[1] = <<84, 88, 84, 88>>
    /\ SW[1] = <<82, 88, 82, 88>>
    /\ SW[2] = <<104, 101, 108, 108, 111, 95, 82, 88, 95, 82, 88, 10>>

\* a line of standard error that reports a payload that did not decode
IsDiagnostic(m) ==
    /\ Len(m) >= 26
    /\ SubSeq(m, 1, 26) = <<70, 97, 105, 108, 101, 100, 32, 116, 111, 32, 100, 101,
                            99, 111, 100, 101, 32, 112, 97, 121, 108, 111, 97, 100,
                            58, 32>>

\* C4: a line that does not decode gets no write and does not end the
\* server: whenever the server is at its read, and after every undecodable
\* line, the writes are as many as the decodable lines read (one less while
\* a decodable line is being answered); a diagnostic is printed per
\* undecodable line; the server is back at its read after such a line
\* unless a signal ended it; and every decodable line, also a later one,
\* has its transformed response.
C4_DecodeFailure ==
    /\ pc["server"] = "server_read" => Len(SW) = Len(SD)
    /\ pc["server"] = "server_write" => Len(SW) = Len(SD) - 1
    /\ Len(SW) <= Len(SD)
    /\ Len(SD) <= Len(SW) + 1
    /\ Len(SelectSeq(stderr["server"], IsDiagnostic)) = Len(SR) - Len(SD)
    /\ Len(SR) > 0 /\ ~IsText(Last(SR)) =>
          /\ Len(SW) = Len(SD)
          /\ \/ pc["server"] = "server_read"
             \/ pc["server"] = "exited" /\ interrupted["server"]
    /\ \A j \in 1..Len(SW) : SW[j] = Substituted(SD[j])

C4_Witness ==
    /\ pc["server"] = "server_read"
    /\ Len(SR) = 2
    /\ SR[1] = <<255, 10>>
    /\ SR[2] = <<104, 101, 108, 108, 111, 95, 84, 88, 95, 84, 88, 10>>
    /\ SW = <<<<104, 101, 108, 108, 111, 95, 82, 88, 95, 82, 88, 10>>>>

\* C5: whichever interface is used, bytes buffered at open are discarded
\* during construction: construction does not fail, and no readline returns
\* bytes that were buffered before the port was opened.
C5_Drained ==
    \A p \in Role :
        /\ ~(pc[p] = "exited" /\ stderr[p] = <<NameError>>)
        /\ ~stale_read[p]

\* C6: every byte string written to the port, by the client or by the
\* server, ends with a line feed.
C6_LineTerminated ==
    \A p \in Role : \A i \in 1..Len(written[p]) :
        /\ written[p][i] # <<>>
        /\ Last(written[p][i]) = 10

\* C7: a step taken while the server is in its loop leaves it in the loop,
\* unless the step is the interruption signal, which ends the process with
\* exit status 0.
C7_ServerRunsOn ==
    [][pc["server"] \in ServerLoop =>
          \/ pc'["server"] \in ServerLoop
          \/ /\ pc'["server"] = "exited"
             /\ ~interrupted["server"]
             /\ interrupted'["server"]
             /\ exit_code'["server"] = 0]_vars

C7_Witness ==
    /\ pc["server"] = "exited"
    /\ interrupted["server"]
    /\ exit_code["server"] = 0
    /\ Len(SR) = 2
    /\ SR[1] = <<255, 10>>
    /\ SR[2] = <<>>

\* the client process is over and had started its exchanges
ClientOver ==
    /\ pc["client"] = "exited"
    /\ Len(CW) >= 1

Printed == stdout["client"]

PrintedError ==
    /\ Len(Printed) = 1
    /\ SubSeq(Printed[1], 1, 7) = <<69, 82, 82, 79, 82, 58, 32>>
    /\ Contains(Printed[1], Repr(CR[Len(CR)]))
    /\ Contains(Printed[1], Repr(RXLine(Len(CR) - 1)))

C9_Safe ==
    /\ Len(SR) <= num_runs + 1
    /\ \A i \in 1..Len(SR) : SR[i] = TXLine(i - 1)
    /\ \A i \in 1..Len(SW) : SW[i] = RXLine(i - 1)
    /\ pc["client"] # "main_except"
    /\ exc = NoException
    /\ Mismatches = {}

C9_Done ==
    /\ pc["client"] = "exited"
    /\ Printed = <<TEST_OK>>
    /\ Len(CW) = num_runs + 1
    /\ Len(SR) = num_runs + 1
    /\ AllMatched

C10_Alternation ==
    /\ Len(CR) <= Len(CW)
    /\ Len(CW) <= Len(CR) + 1
    /\ pc["client"] = "client_write" => Len(CW) = Len(CR)
    /\ pc["client"] = "client_read" => Len(CW) = Len(CR) + 1
    /\ \A i \in 2..Len(CW) : CR[i - 1] = RXLine(i - 2)
    /\ \A i, j \in 1..Len(CW) : i # j => CW[i] # CW[j]

C10_Witness ==
    /\ pc["client"] = "client_read"
    /\ Len(CW) = 3
    /\ Len(CR) = 2
    /\ rx["client"] = <<82, 88, 95, 114, 117, 110, 95>>

====
